---------------------------- MODULE Spec2Model ----------------------------
(***************************************************************************)
(* The classification-forest editor of src/src/App.tsx as a state machine. *)
(*                                                                         *)
(* A TreeNode is a record [id, name, children]; a Forest is a sequence of  *)
(* TreeNodes, nested exactly as in the source, so that a forest holding    *)
(* the same id twice is representable.  A name is a sequence of one-       *)
(* character strings.  Every handler of the component is an operator from  *)
(* the component state (a record of all useState / useRef cells) to the    *)
(* next component state; an action applies one handler, then the render    *)
(* and the effects that follow it.                                         *)
(***************************************************************************)
EXTENDS Integers, Sequences, FiniteSets, TLC

(***************************************************************************)
(* Bounds of the model.                                                    *)
(***************************************************************************)
\* number of events (handler invocations) in a run
MaxTime == 4
\* number of pointer-move events in one drag session
MaxMoves == 2
\* number of direct calls in a run of SpecCalls
MaxCalls == 2
\* number of dimension labels
MaxDims == 4
\* number of nodes of a sample forest
MaxNodes == 4
\* number of characters of a query and of a name searched
MaxQueryLen == 3
\* number of nodes added in a run of SpecNames
MaxAdds == 1

(***************************************************************************)
(* Values.                                                                 *)
(***************************************************************************)
\* the JavaScript null of the id-valued cells
NULL == "null"
\* node ids: those of the sample forest and one more
Ids == {"n1", "n2", "n3", "n4", "n5", "n6"}
\* what uid() returns for a new node (App.tsx:28): an id no node has had,
\* or one drawn before; nothing in the source makes a draw fresh
UidDraws == {"n1", "n6"}
\* the null TreeNode of findNodeAndParent
NoNode == [id |-> NULL, name |-> <<>>, children |-> <<>>]
\* the null DragState
NoDrag == [draggingId |-> NULL, moves |-> 0]
\* ChangeLogItem cap of addChange
LogCap == 80
\* whitespace removed by String.prototype.trim
WhiteSpace == {" "}
\* the default names of new nodes ('Новый элемент', 'Новый регион'), shortened
NewElementBase == <<"E">>
NewRegionBase == <<"R">>
\* what the user can type into the node-name input
NodeDrafts == {<<" ">>, <<"X", " ">>}
\* the null of editingDimIndex (dimension indices count from 0)
NoIndex == -1
\* the group name 'Регион', shortened
DefaultGroupName == <<"G">>
\* the labels of the levels the sample forest below occupies ('Регион',
\* 'Город', 'Район'); as in the source, the sample forest fills every level
\* that has a label
defaultDims == << <<"R", "e">>, <<"G", "o">>, <<"R", "a">> >>
\* the default name of a new level ('Новый уровень'), shortened
NewLevelBase == <<"L">>
\* what the user can type into the group-name and level-name inputs
LabelDrafts == {<<" ">>, <<"Y">>}

(***************************************************************************)
(* Strings.                                                                *)
(***************************************************************************)
DigitChars == <<"0", "1", "2", "3", "4", "5", "6", "7", "8", "9">>

RECURSIVE numberToString(_)
\* `${i}` for a non-negative integer
numberToString(i) ==
  IF i < 10 THEN <<DigitChars[i + 1]>>
  ELSE numberToString(i \div 10) \o <<DigitChars[(i % 10) + 1]>>

RECURSIVE trimStart(_)
trimStart(s) ==
  IF s # <<>> /\ Head(s) \in WhiteSpace THEN trimStart(Tail(s)) ELSE s

RECURSIVE trimEnd(_)
trimEnd(s) ==
  IF s # <<>> /\ s[Len(s)] \in WhiteSpace
  THEN trimEnd(SubSeq(s, 1, Len(s) - 1)) ELSE s

\* String.prototype.trim
trim(s) == trimEnd(trimStart(s))

\* a variant of uniqueName that returns the base name
uniqueNameBase(base, taken) == base

RECURSIVE uniqueNameFrom(_, _, _)
\* the while loop of uniqueName
uniqueNameFrom(base, taken, i) ==
  IF (base \o <<" ">> \o numberToString(i)) \in taken
  THEN uniqueNameFrom(base, taken, i + 1)
  ELSE base \o <<" ">> \o numberToString(i)

uniqueName(base, taken) ==
  IF base \notin taken THEN base ELSE uniqueNameFrom(base, taken, 2)

(***************************************************************************)
(* Trees.                                                                  *)
(***************************************************************************)
makeNode(id, name, children) ==
  [id |-> id, name |-> name, children |-> children]

\* the sample forest of App.tsx:57-67 without the subtrees below "Химки",
\* "Садовое кольцо" and "Тверь"; the ids are five distinct draws of uid()
initialForest ==
  << makeNode("n1", <<"C", "e">>,
       << makeNode("n2", <<"M", "o">>,
            << makeNode("n3", <<"K", "h">>, <<>>) >>),
          makeNode("n4", <<"N", "N">>, <<>>) >>),
     makeNode("n5", <<"S", "Z">>, <<>>) >>

RECURSIVE flattenForest(_)
\* the nodes of a forest in depth-first (pre-)order
flattenForest(nodes) ==
  IF nodes = <<>> THEN <<>>
  ELSE <<Head(nodes)>> \o flattenForest(Head(nodes).children)
         \o flattenForest(Tail(nodes))

RECURSIVE findPathFrom(_, _, _)
\* the dfs of findNodeAndParent / detachNode from sibling i on: the index
\* path of the first node with this id in depth-first order, <<>> if none
findPathFrom(nodes, i, id) ==
  IF i > Len(nodes) THEN <<>>
  ELSE IF nodes[i].id = id THEN <<i>>
  ELSE LET sub == findPathFrom(nodes[i].children, 1, id)
       IN  IF sub # <<>> THEN <<i>> \o sub
           ELSE findPathFrom(nodes, i + 1, id)

findPath(forest, id) == findPathFrom(forest, 1, id)

RECURSIVE getPathDfs(_, _)
\* the dfs of getPathToNode: the nodes pushed and not popped when it returns
getPathDfs(nodes, id) ==
  IF nodes = <<>> THEN <<>>
  ELSE LET n   == Head(nodes)
           sub == IF n.children # <<>> THEN getPathDfs(n.children, id) ELSE <<>>
       IN  IF n.id = id THEN <<n>>
           ELSE IF sub # <<>> THEN <<n>> \o sub
           ELSE getPathDfs(Tail(nodes), id)

\* a variant of getPathToNode that returns the node found alone
getPathToNodeLast(forest, id) ==
  LET path == getPathDfs(forest, id)
  IN  IF path = <<>> THEN <<>> ELSE <<path[Len(path)]>>

getPathToNode(forest, id) == getPathDfs(forest, id)

RECURSIVE nodeAt(_, _)
\* the node an index path leads to (the object a reference points at)
nodeAt(nodes, path) ==
  IF Len(path) = 1 THEN nodes[path[1]]
  ELSE nodeAt(nodes[path[1]].children, Tail(path))

RECURSIVE replaceAt(_, _, _)
\* the forest with the node at path replaced (a mutation through a reference)
replaceAt(nodes, path, node) ==
  IF Len(path) = 1 THEN [nodes EXCEPT ![path[1]] = node]
  ELSE [nodes EXCEPT ![path[1]] =
          [nodes[path[1]] EXCEPT
             !.children = replaceAt(nodes[path[1]].children, Tail(path), node)]]

\* nodes.splice(i, 1)
spliceOut(nodes, i) ==
  SubSeq(nodes, 1, i - 1) \o SubSeq(nodes, i + 1, Len(nodes))

RECURSIVE removeAt(_, _)
\* the forest with the node at path spliced out of its owner's list
removeAt(nodes, path) ==
  IF Len(path) = 1 THEN spliceOut(nodes, path[1])
  ELSE [nodes EXCEPT ![path[1]] =
          [nodes[path[1]] EXCEPT
             !.children = removeAt(nodes[path[1]].children, Tail(path))]]

\* { parent, node } of the first node with this id; path stands for the
\* reference to node
findNodeAndParent(forest, id) ==
  LET path == findPath(forest, id)
  IN  [ path   |-> path,
        node   |-> IF path = <<>> THEN NoNode ELSE nodeAt(forest, path),
        parent |-> IF Len(path) < 2 THEN NoNode
                   ELSE nodeAt(forest, SubSeq(path, 1, Len(path) - 1)) ]

\* a variant of has that finds no id
hasNone(collapsedIds, id) == FALSE

\* collapsedIds.has(id)
has(collapsedIds, id) == id \in collapsedIds

RECURSIVE buildVisibleForest(_, _)
buildVisibleForest(forest, collapsedIds) ==
  IF forest = <<>> THEN <<>>
  ELSE LET n == Head(forest)
       IN  << IF has(collapsedIds, n.id) THEN [n EXCEPT !.children = <<>>]
              ELSE [n EXCEPT
                      !.children = buildVisibleForest(n.children, collapsedIds)]
           >> \o buildVisibleForest(Tail(forest), collapsedIds)

\* whether maybeDescendantId occurs below the first node with ancestorId
isDescendant(forest, ancestorId, maybeDescendantId) ==
  LET anc == findNodeAndParent(forest, ancestorId).node
  IN  IF anc = NoNode THEN FALSE
      ELSE findPath(anc.children, maybeDescendantId) # <<>>

\* { forest, detached }
detachNode(forest, nodeId) ==
  LET path == findPath(forest, nodeId)
  IN  IF path = <<>> THEN [forest |-> forest, detached |-> NoNode]
      ELSE [forest |-> removeAt(forest, path), detached |-> nodeAt(forest, path)]

\* a variant of pushChild: target.children.unshift(node)
pushChildFirst(forest, targetPath, node) ==
  LET target == nodeAt(forest, targetPath)
  IN  replaceAt(forest, targetPath,
                [target EXCEPT !.children = <<node>> \o @])

\* target.children.push(node)
pushChild(forest, targetPath, node) ==
  LET target == nodeAt(forest, targetPath)
  IN  replaceAt(forest, targetPath,
                [target EXCEPT !.children = Append(@, node)])

\* a variant of pushChildren: target.children.unshift(...nodes)
pushChildrenFirst(forest, targetPath, nodes) ==
  LET target == nodeAt(forest, targetPath)
  IN  replaceAt(forest, targetPath, [target EXCEPT !.children = nodes \o @])

\* target.children.push(...nodes)
pushChildren(forest, targetPath, nodes) ==
  LET target == nodeAt(forest, targetPath)
  IN  replaceAt(forest, targetPath, [target EXCEPT !.children = @ \o nodes])

\* { forest, moved }
moveNodeAsChild(forest, draggingId, targetId) ==
  IF draggingId = targetId THEN [forest |-> forest, moved |-> FALSE]
  ELSE IF isDescendant(forest, draggingId, targetId)
  THEN [forest |-> forest, moved |-> FALSE]
  ELSE LET d == detachNode(forest, draggingId)
       IN  IF d.detached = NoNode THEN [forest |-> forest, moved |-> FALSE]
           ELSE LET target == findNodeAndParent(d.forest, targetId)
                IN  IF target.node = NoNode
                    THEN [forest |-> forest, moved |-> FALSE]
                    ELSE [forest |-> pushChild(d.forest, target.path, d.detached),
                          moved  |-> TRUE]

(***************************************************************************)
(* The component state: the useState and useRef cells of App (App.tsx      *)
(* 301-334) that the handlers below read or write.  now counts the events  *)
(* of the run; upListeners are the pointerup listeners the drag effect has *)
(* registered on window and that have not fired yet, each with the forest  *)
(* its closure captured; lastOp records the last event.  now is also what  *)
(* Date.now() returns during an event.                                     *)
(***************************************************************************)
VARIABLES forest, selectedId, panelOpen, collapsed, editingNodeId, nodeDraft,
          changeLog, deleteDialog, reassignTargetId, drag, dropTargetId,
          dropTargetRef, dragRef, overlay, upListeners, now, lastOp,
          groupName, dims, editingGroup, groupDraft, editingDimIndex,
          dimDraft, committedAt, committedGroupName, query

vars == << forest, selectedId, panelOpen, collapsed, editingNodeId, nodeDraft,
           changeLog, deleteDialog, reassignTargetId, drag, dropTargetId,
           dropTargetRef, dragRef, overlay, upListeners, now, lastOp,
           groupName, dims, editingGroup, groupDraft, editingDimIndex,
           dimDraft, committedAt, committedGroupName, query >>

\* the current component state as one record
St ==
  [ forest           |-> forest,
    selectedId       |-> selectedId,
    panelOpen        |-> panelOpen,
    collapsed        |-> collapsed,
    editingNodeId    |-> editingNodeId,
    nodeDraft        |-> nodeDraft,
    changeLog        |-> changeLog,
    deleteDialog     |-> deleteDialog,
    reassignTargetId |-> reassignTargetId,
    drag             |-> drag,
    dropTargetId     |-> dropTargetId,
    dropTargetRef    |-> dropTargetRef,
    dragRef          |-> dragRef,
    overlay          |-> overlay,
    upListeners      |-> upListeners,
    now              |-> now,
    groupName        |-> groupName,
    dims             |-> dims,
    editingGroup     |-> editingGroup,
    groupDraft       |-> groupDraft,
    editingDimIndex  |-> editingDimIndex,
    dimDraft         |-> dimDraft,
    committedAt      |-> committedAt,
    committedGroupName |-> committedGroupName,
    query            |-> query ]

\* the state after construction (the useState initialisers)
InitState ==
  [ forest           |-> initialForest,
    selectedId       |-> NULL,
    panelOpen        |-> FALSE,
    collapsed        |-> {},
    editingNodeId    |-> NULL,
    nodeDraft        |-> <<>>,
    changeLog        |-> <<>>,
    deleteDialog     |-> [open |-> FALSE, nodeId |-> NULL],
    reassignTargetId |-> NULL,
    drag             |-> NoDrag,
    dropTargetId     |-> NULL,
    dropTargetRef    |-> NULL,
    dragRef          |-> NoDrag,
    overlay          |-> NULL,
    upListeners      |-> <<>>,
    now              |-> 0,
    groupName        |-> DefaultGroupName,
    dims             |-> defaultDims,
    editingGroup     |-> FALSE,
    groupDraft       |-> DefaultGroupName,
    editingDimIndex  |-> NoIndex,
    dimDraft         |-> <<>>,
    committedAt      |-> 0,
    committedGroupName |-> DefaultGroupName,
    query            |-> <<>> ]

(***************************************************************************)
(* The search: escapeRegExp, and of new RegExp(pattern, 'i') and test what *)
(* the patterns over QueryChars need: a backslash makes the next character *)
(* a literal, "." stands for any character, "+" repeats the atom before    *)
(* it, "(" without ")" is a SyntaxError, every other character is a        *)
(* literal; with the flag i characters are compared after toUpperCase.     *)
(***************************************************************************)
\* the characters [.*+?^${}()|[\]\\] of escapeRegExp
MetaChars == {".", "*", "+", "?", "^", "$", "{", "}", "(", ")", "|", "[", "]", "\\"}

\* a variant of escapeRegExp that escapes nothing
escapeNothing(value) == value

RECURSIVE escapeRegExp(_)
\* value.replace(/[.*+?^${}()|[\]\\]/g, '\\$&')
escapeRegExp(value) ==
  IF value = <<>> THEN <<>>
  ELSE (IF Head(value) \in MetaChars THEN <<"\\", Head(value)>>
        ELSE <<Head(value)>>) \o escapeRegExp(Tail(value))

\* the pattern is not a regular expression: new RegExp throws
SyntaxError == [thrown |-> TRUE, atoms |-> <<>>]

\* the null of queryRe
NoRegExp == [thrown |-> TRUE, atoms |-> <<>>]

RECURSIVE parsePattern(_, _)
\* the atoms of a pattern, after the atoms read so far
parsePattern(pattern, atoms) ==
  IF pattern = <<>> THEN [thrown |-> FALSE, atoms |-> atoms]
  ELSE LET c == Head(pattern)
       IN  IF c = "\\"
           THEN IF Len(pattern) < 2 THEN SyntaxError
                ELSE parsePattern(SubSeq(pattern, 3, Len(pattern)),
                       Append(atoms, [kind |-> "char", ch |-> pattern[2],
                                      plus |-> FALSE]))
           ELSE IF c = "."
           THEN parsePattern(Tail(pattern),
                  Append(atoms, [kind |-> "any", ch |-> c, plus |-> FALSE]))
           ELSE IF c = "+"
           THEN IF atoms = <<>> \/ atoms[Len(atoms)].plus THEN SyntaxError
                ELSE parsePattern(Tail(pattern),
                       [atoms EXCEPT ![Len(atoms)].plus = TRUE])
           ELSE IF c \in MetaChars THEN SyntaxError
           ELSE parsePattern(Tail(pattern),
                  Append(atoms, [kind |-> "char", ch |-> c, plus |-> FALSE]))

\* new RegExp(pattern, 'i')
newRegExp(pattern) == parsePattern(pattern, <<>>)

\* String.prototype.toUpperCase on one character
toUpperCase(c) == IF c = "a" THEN "A" ELSE IF c = "b" THEN "B" ELSE c

\* one atom against one character, ignoring case
atomMatches(atom, c) ==
  atom.kind = "any" \/ toUpperCase(atom.ch) = toUpperCase(c)

RECURSIVE matchAt(_, _, _)
\* the atoms match a piece of name that begins at position i
matchAt(atoms, name, i) ==
  IF atoms = <<>> THEN TRUE
  ELSE LET atom == Head(atoms)
       IN  IF atom.plus
           THEN \E k \in 1..(Len(name) - i + 1) :
                  /\ \A j \in i..(i + k - 1) : atomMatches(atom, name[j])
                  /\ matchAt(Tail(atoms), name, i + k)
           ELSE /\ i <= Len(name)
                /\ atomMatches(atom, name[i])
                /\ matchAt(Tail(atoms), name, i + 1)

\* RegExp.prototype.test
test(re, name) == \E i \in 1..(Len(name) + 1) : matchAt(re.atoms, name, i)

\* queryRe: NULL for a blank query and for a pattern that does not compile
queryRe(s) ==
  LET q == trim(s.query)
  IN  IF q = <<>> THEN NoRegExp
      ELSE LET re == newRegExp(escapeRegExp(q))
           IN  IF re.thrown THEN NoRegExp ELSE re

isMatch(s, name) ==
  LET re == queryRe(s) IN IF re # NoRegExp THEN test(re, name) ELSE FALSE

\* onChange of the search input
setQuery(s, value) == [s EXCEPT !.query = value]

(***************************************************************************)
(* The layout.  A y is a JavaScript number: an integer for a leaf, a mean  *)
(* of such numbers for an internal node.  It is kept here as the exact     *)
(* fraction num / den in lowest terms.  The double of the program is that  *)
(* fraction rounded to nearest at each + and /; rounding is monotone and   *)
(* exact on the integers of the leaves, so a y compares with an integer    *)
(* the same way in both.                                                   *)
(***************************************************************************)
RECURSIVE gcd(_, _)
gcd(a, b) == IF b = 0 THEN a ELSE gcd(b, a % b)

\* the number n / d, for n >= 0 and d > 0
Rat(n, d) == LET g == gcd(n, d) IN [num |-> n \div g, den |-> d \div g]

\* a + b
RatAdd(a, b) == Rat(a.num * b.den + b.num * a.den, a.den * b.den)

\* a variant of RatDiv that does not divide
RatDivByOne(a, k) == a

\* a / k, for an integer k > 0
RatDiv(a, k) == Rat(a.num, a.den * k)

\* Math.max
max(a, b) == IF a >= b THEN a ELSE b

\* childYs.reduce((a, b) => a + b, 0)
RECURSIVE reduceSum(_, _)
reduceSum(ys, acc) ==
  IF ys = <<>> THEN acc ELSE reduceSum(Tail(ys), RatAdd(acc, Head(ys)))

\* a variant of nextLeafY that does not count
nextLeafYSame(leafY) == leafY

\* leafY += 1
nextLeafY(leafY) == leafY + 1

\* positions.set(id, pos)
mapSet(positions, id, pos) ==
  [x \in (DOMAIN positions) \cup {id} |-> IF x = id THEN pos ELSE positions[x]]

\* walk of layoutForest; st holds leafY and positions, the result the y of the
\* node as well.  walkEach is node.children.map(walk) and forest.forEach(walk).
RECURSIVE walk(_, _, _)
RECURSIVE walkEach(_, _, _)
walk(node, level, st) ==
  IF node.children = <<>>
  THEN LET y == Rat(st.leafY, 1)
       IN  [y         |-> y,
            leafY     |-> nextLeafY(st.leafY),
            positions |-> mapSet(st.positions, node.id,
                                 [level |-> level, y |-> y])]
  ELSE LET r == walkEach(node.children, level + 1, st)
           y == RatDiv(reduceSum(r.childYs, Rat(0, 1)), max(Len(r.childYs), 1))
       IN  [y         |-> y,
            leafY     |-> r.leafY,
            positions |-> mapSet(r.positions, node.id,
                                 [level |-> level, y |-> y])]

walkEach(nodes, level, st) ==
  IF nodes = <<>>
  THEN [childYs |-> <<>>, leafY |-> st.leafY, positions |-> st.positions]
  ELSE LET h == walk(Head(nodes), level, st)
           t == walkEach(Tail(nodes), level,
                         [leafY |-> h.leafY, positions |-> h.positions])
       IN  [childYs   |-> <<h.y>> \o t.childYs,
            leafY     |-> t.leafY,
            positions |-> t.positions]

layoutForest(f) ==
  walkEach(f, 0, [leafY |-> 0, positions |-> <<>>]).positions

\* positions.get(id)?.level ?? 0
levelOr0(positions, id) ==
  IF id \in DOMAIN positions THEN positions[id].level ELSE 0

\* dfs of maxLevel: the largest level reached from nodes, which are at level
RECURSIVE maxLevelFrom(_, _)
maxLevelFrom(nodes, level) ==
  LET below == { maxLevelFrom(nodes[i].children, level + 1) :
                   i \in { k \in DOMAIN nodes : nodes[k].children # <<>> } }
  IN  CHOOSE m \in below \cup {level} : \A x \in below \cup {level} : x <= m

maxLevel(f) == max(0, maxLevelFrom(f, 0))

(***************************************************************************)
(* Derived values of a render.                                             *)
(***************************************************************************)
\* the ids of a sequence of nodes
idsOf(nodes) == { nodes[i].id : i \in DOMAIN nodes }

\* flatVisibleNodes: the nodes renderNode draws, whose elements nodeRefs holds
renderedIds(s) == idsOf(flattenForest(buildVisibleForest(s.forest, s.collapsed)))

\* canToggle of renderNode
canToggle(s, id) == findNodeAndParent(s.forest, id).node.children # <<>>

\* selectedPath
selectedPath(s) ==
  IF s.selectedId = NULL THEN <<>> ELSE getPathToNode(s.forest, s.selectedId)

\* selectedNode
selectedNode(s) ==
  IF s.selectedId = NULL THEN NoNode
  ELSE findNodeAndParent(s.forest, s.selectedId).node

\* deleteHasChildren
deleteHasChildren(s) ==
  /\ s.deleteDialog.nodeId # NULL
  /\ findNodeAndParent(s.forest, s.deleteDialog.nodeId).node.children # <<>>

\* the delete dialog is drawn
dialogShown(s) == s.deleteDialog.open /\ s.deleteDialog.nodeId # NULL

\* the ids of the options of listNodeOptions, in the order of the list: every
\* node but those with excludeId, in depth-first order
listNodeOptions(f, excludeId) ==
  LET ids == [i \in DOMAIN flattenForest(f) |-> flattenForest(f)[i].id]
  IN  SelectSeq(ids, LAMBDA id : id # excludeId)

\* a variant of the filter of reassignOptions that keeps every option
keepsDescendants(f, nodeId, optionId) == TRUE

\* the filter of reassignOptions
notBelow(f, nodeId, optionId) == ~isDescendant(f, nodeId, optionId)

\* the ids of the options of reassignOptions, in the order of the list
reassignOptionList(s) ==
  IF s.deleteDialog.nodeId = NULL THEN <<>>
  ELSE SelectSeq(listNodeOptions(s.forest, s.deleteDialog.nodeId),
                 LAMBDA o : notBelow(s.forest, s.deleteDialog.nodeId, o))

\* the values of the options of reassignOptions
reassignOptions(s) ==
  { reassignOptionList(s)[i] : i \in DOMAIN reassignOptionList(s) }

(***************************************************************************)
(* Handlers.                                                               *)
(***************************************************************************)
\* a variant of sliceLast: arr.slice(0, n)
sliceFirst(arr, n) ==
  IF Len(arr) <= n THEN arr ELSE SubSeq(arr, 1, n)

\* arr.slice(-n)
sliceLast(arr, n) ==
  IF Len(arr) <= n THEN arr ELSE SubSeq(arr, Len(arr) - n + 1, Len(arr))

\* of a ChangeLogItem the summary is kept; its id (the key of a row of the
\* history list) and its time (shown in that row) are read nowhere else
addChange(s, summary) ==
  [s EXCEPT !.changeLog = sliceLast(Append(@, [summary |-> summary]), LogCap)]

\* a variant of toggleCollapsed that stores the pruned forest
toggleCollapsedPruning(s, nodeId) ==
  LET next == IF nodeId \in s.collapsed THEN s.collapsed \ {nodeId}
              ELSE s.collapsed \cup {nodeId}
  IN  [s EXCEPT !.collapsed = next,
                !.forest = buildVisibleForest(s.forest, next)]

toggleCollapsed(s, nodeId) ==
  [s EXCEPT !.collapsed =
     IF nodeId \in @ THEN @ \ {nodeId} ELSE @ \cup {nodeId}]

expandNode(s, nodeId) == [s EXCEPT !.collapsed = @ \ {nodeId}]

\* visibleForest, pos, depth and posFull
visibleForest(s) == buildVisibleForest(s.forest, s.collapsed)

pos(s) == layoutForest(visibleForest(s))

depth(s) == maxLevel(visibleForest(s))

posFull(s) == layoutForest(s.forest)

\* the ids that the dfs of collapseToLevel and expandFromLevel picks
idsFromLevel(s, levelIndex) ==
  LET p == posFull(s)
  IN  { id \in idsOf(flattenForest(s.forest)) : levelOr0(p, id) >= levelIndex }

collapseToLevel(s, levelIndex) ==
  [s EXCEPT !.collapsed = idsFromLevel(s, levelIndex)]

expandFromLevel(s, levelIndex) ==
  [s EXCEPT !.collapsed = @ \ idsFromLevel(s, levelIndex)]

\* onClick of the chevron of a level header
toggleLevel(s, index) ==
  LET p == posFull(s)
      anyCollapsed == \E id \in s.collapsed : levelOr0(p, id) >= index
  IN  IF anyCollapsed THEN expandFromLevel(s, index)
      ELSE collapseToLevel(s, index)

\* onClick of a node box
selectNode(s, nodeId) == [s EXCEPT !.selectedId = nodeId, !.panelOpen = TRUE]

\* the close button of the side panel
closePanel(s) == [s EXCEPT !.panelOpen = FALSE]

showOverlayForNode(s, nodeId) ==
  IF nodeId \notin renderedIds(s) THEN s ELSE [s EXCEPT !.overlay = nodeId]

\* the timeout of scheduleHideOverlay fires
hideOverlay(s) == [s EXCEPT !.overlay = NULL]

\* the child names of a node
childNames(node) == { node.children[i].name : i \in DOMAIN node.children }

addChildRight(s, parentId, newId) ==
  LET found == findNodeAndParent(s.forest, parentId)
  IN  IF found.node = NoNode THEN s
      ELSE LET childName == uniqueName(NewElementBase, childNames(found.node))
               child     == makeNode(newId, childName, <<>>)
               s1 == [expandNode(s, parentId) EXCEPT
                        !.forest        = pushChild(s.forest, found.path, child),
                        !.selectedId    = newId,
                        !.panelOpen     = TRUE,
                        !.editingNodeId = newId,
                        !.nodeDraft     = childName]
           IN  addChange(s1, "addChild")

addRegion(s, newId) ==
  LET name == uniqueName(NewRegionBase,
                         { s.forest[i].name : i \in DOMAIN s.forest })
      s1 == [s EXCEPT
               !.forest        = Append(@, makeNode(newId, name, <<>>)),
               !.selectedId    = newId,
               !.panelOpen     = TRUE,
               !.editingNodeId = newId,
               !.nodeDraft     = name]
  IN  addChange(s1, "addRegion")

requestDeleteNode(s, nodeId) ==
  [s EXCEPT !.deleteDialog = [open |-> TRUE, nodeId |-> nodeId],
            !.reassignTargetId = NULL]

closeDeleteDialog(s) ==
  [s EXCEPT !.deleteDialog = [open |-> FALSE, nodeId |-> NULL],
            !.reassignTargetId = NULL]

\* onChange of the dialog's select
setReassignTargetId(s, value) == [s EXCEPT !.reassignTargetId = value]

\* updated.findIndex((n) => n.id === nodeId), counted from 1; 0 if none
findIndex(nodes, nodeId) ==
  IF \E i \in DOMAIN nodes : nodes[i].id = nodeId
  THEN CHOOSE i \in DOMAIN nodes :
         /\ nodes[i].id = nodeId
         /\ \A j \in 1..(i - 1) : nodes[j].id # nodeId
  ELSE 0

\* a variant of removeNode that forgets the node with a parent
removeNodeRootOnly(updated, nodeId) ==
  LET idx == findIndex(updated, nodeId)
  IN  IF idx >= 1 THEN spliceOut(updated, idx) ELSE updated

\* the removal both delete handlers share: a node without parent is spliced
\* out of the root list, otherwise the parent's children are filtered
removeNode(updated, nodeId) ==
  LET found == findNodeAndParent(updated, nodeId)
  IN  IF found.parent = NoNode
      THEN LET idx == findIndex(updated, nodeId)
           IN  IF idx >= 1 THEN spliceOut(updated, idx) ELSE updated
      ELSE replaceAt(updated, SubSeq(found.path, 1, Len(found.path) - 1),
             [found.parent EXCEPT
                !.children = SelectSeq(@, LAMBDA c : c.id # nodeId)])

deleteNodeAndChildren(s, nodeId) ==
  LET s1 == [s EXCEPT
               !.forest        = removeNode(s.forest, nodeId),
               !.collapsed     = @ \ {nodeId},
               !.selectedId    = IF @ = nodeId THEN NULL ELSE @,
               !.panelOpen     = IF s.selectedId = nodeId THEN FALSE ELSE @,
               !.editingNodeId = IF @ = nodeId THEN NULL ELSE @,
               !.nodeDraft     = IF s.editingNodeId = nodeId THEN <<>> ELSE @,
               !.overlay       = IF @ = nodeId THEN NULL ELSE @]
  IN  addChange(s1, "deleteCascade")

confirmDeleteWithChildren(s) ==
  IF s.deleteDialog.nodeId = NULL THEN s
  ELSE closeDeleteDialog(deleteNodeAndChildren(s, s.deleteDialog.nodeId))

\* a variant of the test below that lets a descendant through
reassignRejectedSelfOnly(f, nodeId, targetId) == targetId = nodeId

\* the self / cycle test of confirmReassignChildren
reassignRejected(f, nodeId, targetId) ==
  targetId = nodeId \/ isDescendant(f, nodeId, targetId)

confirmReassignChildren(s) ==
  LET nodeId   == s.deleteDialog.nodeId
      targetId == s.reassignTargetId
  IN  IF nodeId = NULL \/ targetId = NULL THEN s
      ELSE IF reassignRejected(s.forest, nodeId, targetId) THEN s
      ELSE LET node   == findNodeAndParent(s.forest, nodeId)
               target == findNodeAndParent(s.forest, targetId)
           IN  IF node.node = NoNode \/ target.node = NoNode THEN s
               ELSE LET pushed ==
                          pushChildren(s.forest, target.path, node.node.children)
                        s1 == [s EXCEPT !.forest = removeNode(pushed, nodeId)]
                    IN  addChange(closeDeleteDialog(s1), "deleteReassign")

\* onChange of the node-name input
setNodeDraft(s, value) == [s EXCEPT !.nodeDraft = value]

\* a variant of commitRenameNode that stores the draft as typed
commitRenameNodeUntrimmed(s) ==
  IF trim(s.nodeDraft) = <<>> \/ s.editingNodeId = NULL THEN s
  ELSE LET found == findNodeAndParent(s.forest, s.editingNodeId)
       IN  IF found.node = NoNode THEN s
           ELSE addChange(
                  [s EXCEPT
                     !.forest = replaceAt(@, found.path,
                                  [found.node EXCEPT !.name = s.nodeDraft]),
                     !.editingNodeId = NULL,
                     !.nodeDraft = <<>>],
                  "renameNode")

commitRenameNode(s) ==
  LET next == trim(s.nodeDraft)
  IN  IF next = <<>> \/ s.editingNodeId = NULL THEN s
      ELSE LET found == findNodeAndParent(s.forest, s.editingNodeId)
           IN  IF found.node = NoNode THEN s
               ELSE addChange(
                      [s EXCEPT
                         !.forest = replaceAt(@, found.path,
                                      [found.node EXCEPT !.name = next]),
                         !.editingNodeId = NULL,
                         !.nodeDraft = <<>>],
                      "renameNode")

cancelRenameNode(s) == [s EXCEPT !.editingNodeId = NULL, !.nodeDraft = <<>>]

(***************************************************************************)
(* The labels: the group name and the dimension (level) labels.            *)
(***************************************************************************)
startRenameGroup(s) ==
  [s EXCEPT !.editingGroup = TRUE, !.groupDraft = s.groupName]

\* onChange of the group-name input
setGroupDraft(s, value) == [s EXCEPT !.groupDraft = value]

\* a variant of commitRenameGroup without the test of the empty name
commitRenameGroupAnyDraft(s) ==
  addChange([s EXCEPT !.groupName = trim(s.groupDraft), !.editingGroup = FALSE],
            "renameGroup")

commitRenameGroup(s) ==
  LET next == trim(s.groupDraft)
  IN  IF next = <<>> THEN s
      ELSE addChange([s EXCEPT !.groupName = next, !.editingGroup = FALSE],
                     "renameGroup")

cancelRenameGroup(s) ==
  [s EXCEPT !.groupDraft = s.groupName, !.editingGroup = FALSE]

\* dims[index] || ''
dimAt(ds, index) ==
  IF index >= 0 /\ index < Len(ds) THEN ds[index + 1] ELSE <<>>

startRenameDim(s, index) ==
  [s EXCEPT !.editingDimIndex = index, !.dimDraft = dimAt(s.dims, index)]

\* onChange of the level-name input
setDimDraft(s, value) == [s EXCEPT !.dimDraft = value]

commitRenameDim(s) ==
  IF s.editingDimIndex = NoIndex THEN s
  ELSE LET next == trim(s.dimDraft)
       IN  IF next = <<>> THEN s
           ELSE addChange(
                  [s EXCEPT !.dims = [@ EXCEPT ![s.editingDimIndex + 1] = next],
                            !.editingDimIndex = NoIndex,
                            !.dimDraft = <<>>],
                  "renameDim")

cancelRenameDim(s) == [s EXCEPT !.editingDimIndex = NoIndex, !.dimDraft = <<>>]

\* updated.splice(at, 0, name), at counted from 0
spliceIn(arr, at, name) ==
  SubSeq(arr, 1, at) \o <<name>> \o SubSeq(arr, at + 1, Len(arr))

addDimLeft(s, index) ==
  LET name == uniqueName(NewLevelBase, { s.dims[i] : i \in DOMAIN s.dims })
  IN  addChange([s EXCEPT !.dims = spliceIn(@, index, name),
                          !.editingDimIndex = index,
                          !.dimDraft = name],
                "addDim")

addDimRight(s, index) ==
  LET name == uniqueName(NewLevelBase, { s.dims[i] : i \in DOMAIN s.dims })
  IN  addChange([s EXCEPT !.dims = spliceIn(@, index + 1, name),
                          !.editingDimIndex = index + 1,
                          !.dimDraft = name],
                "addDim")

\* hasPendingChanges
hasPendingChanges(s) == Len(s.changeLog) > 0

applyChanges(s) ==
  [s EXCEPT !.committedAt = s.now,
            !.committedGroupName = s.groupName,
            !.changeLog = <<>>]

\* a variant of resetDraft that keeps the entries of the ledger
resetDraftKeepingLedger(s) ==
  addChange([s EXCEPT !.groupName = DefaultGroupName,
                      !.dims = defaultDims,
                      !.forest = initialForest,
                      !.selectedId = NULL,
                      !.collapsed = {},
                      !.panelOpen = FALSE,
                      !.overlay = NULL],
            "resetDraft")

\* onClick of the group menu's reset item
resetDraft(s) ==
  addChange([s EXCEPT !.groupName = DefaultGroupName,
                      !.dims = defaultDims,
                      !.forest = initialForest,
                      !.selectedId = NULL,
                      !.collapsed = {},
                      !.panelOpen = FALSE,
                      !.overlay = NULL,
                      !.changeLog = <<>>],
            "resetDraft")

(***************************************************************************)
(* The drag session.                                                       *)
(***************************************************************************)
\* over is the rendered node whose box holds the pointer (NULL: none); the
\* boxes of nodeRefs do not overlap, so the loop finds at most that one
hitTestTarget(rendered, over, draggingId) ==
  IF over \in rendered /\ over # draggingId THEN over ELSE NULL

\* a variant of startDrag that does not look at the delete dialog
startDragDespiteDialog(s, nodeId) ==
  IF s.editingNodeId # NULL THEN s
  ELSE [s EXCEPT !.overlay      = NULL,
                 !.panelOpen    = FALSE,
                 !.drag         = [draggingId |-> nodeId, moves |-> 0],
                 !.dropTargetId = NULL]

startDrag(s, nodeId) ==
  IF s.editingNodeId # NULL \/ s.deleteDialog.open THEN s
  ELSE [s EXCEPT !.overlay      = NULL,
                 !.panelOpen    = FALSE,
                 !.drag         = [draggingId |-> nodeId, moves |-> 0],
                 !.dropTargetId = NULL]

\* a variant of onMove without the descendant test
onMoveAnyTarget(s, over) ==
  IF s.dragRef = NoDrag THEN s
  ELSE [s EXCEPT
          !.drag = IF @ = NoDrag THEN @ ELSE [@ EXCEPT !.moves = @ + 1],
          !.dropTargetId =
             hitTestTarget(renderedIds(s), over, s.dragRef.draggingId)]

\* the pointermove listener; a move is a new pointer position, so the drag
\* object it stores differs from the one before (moves stands for x, y)
onMove(s, over) ==
  IF s.dragRef = NoDrag THEN s
  ELSE LET t == hitTestTarget(renderedIds(s), over, s.dragRef.draggingId)
       IN  [s EXCEPT
              !.drag = IF @ = NoDrag THEN @ ELSE [@ EXCEPT !.moves = @ + 1],
              !.dropTargetId =
                 IF t # NULL /\ isDescendant(s.forest, s.dragRef.draggingId, t)
                 THEN NULL ELSE t]

\* a variant of finishDrag that leaves the drop target after a committed move
finishDragKeepingTarget(s, closureForest, finalDropTargetId, draggingId) ==
  IF finalDropTargetId = NULL
  THEN [s EXCEPT !.drag = NoDrag, !.dropTargetId = NULL]
  ELSE LET res == moveNodeAsChild(closureForest, draggingId, finalDropTargetId)
       IN  IF res.moved
           THEN [addChange(
                   [expandNode(s, finalDropTargetId) EXCEPT
                      !.forest = res.forest,
                      !.selectedId = draggingId],
                   "move") EXCEPT !.drag = NoDrag]
           ELSE [s EXCEPT !.drag = NoDrag, !.dropTargetId = NULL]

\* a variant of finishDrag that selects the dragged node also without target
finishDragSelecting(s, closureForest, finalDropTargetId, draggingId) ==
  IF finalDropTargetId = NULL
  THEN [s EXCEPT !.drag = NoDrag, !.dropTargetId = NULL,
                 !.selectedId = draggingId]
  ELSE LET res == moveNodeAsChild(closureForest, draggingId, finalDropTargetId)
           s1  == IF res.moved
                  THEN addChange(
                         [expandNode(s, finalDropTargetId) EXCEPT
                            !.forest = res.forest,
                            !.selectedId = draggingId],
                         "move")
                  ELSE s
       IN  [s1 EXCEPT !.drag = NoDrag, !.dropTargetId = NULL]

\* finishDrag of the render whose forest is closureForest
finishDrag(s, closureForest, finalDropTargetId, draggingId) ==
  IF finalDropTargetId = NULL
  THEN [s EXCEPT !.drag = NoDrag, !.dropTargetId = NULL]
  ELSE LET res == moveNodeAsChild(closureForest, draggingId, finalDropTargetId)
           s1  == IF res.moved
                  THEN addChange(
                         [expandNode(s, finalDropTargetId) EXCEPT
                            !.forest = res.forest,
                            !.selectedId = draggingId],
                         "move")
                  ELSE s
       IN  [s1 EXCEPT !.drag = NoDrag, !.dropTargetId = NULL]

\* one pointerup listener
onUp(s, listener) ==
  IF s.dragRef = NoDrag THEN s
  ELSE finishDrag(s, listener.forest, s.dropTargetRef, s.dragRef.draggingId)

(***************************************************************************)
(* A render and its effects (App.tsx 361-366, 624-642): the refs take the  *)
(* values of their cells, and, with a drag in progress and drag or forest  *)
(* changed since the render before, the drag effect runs again and         *)
(* registers one more pointerup listener; its cleanup removes the          *)
(* pointermove listener only.                                              *)
(***************************************************************************)
render(prev, s) ==
  [s EXCEPT
     !.dragRef       = s.drag,
     !.dropTargetRef = s.dropTargetId,
     !.upListeners   =
        IF s.drag # NoDrag /\ (s.drag # prev.drag \/ s.forest # prev.forest)
        THEN Append(@, [forest |-> s.forest])
        ELSE @]

RECURSIVE dispatchUp(_, _, _, _)
\* the listeners of one pointerup event, run in the order of registration.
\* flush: whether the updates of a listener are rendered, and the effects
\* run, before the next listener is called
dispatchUp(prev, s, listeners, flush) ==
  IF listeners = <<>> THEN s
  ELSE LET s1 == onUp(s, Head(listeners))
       IN  IF flush
           THEN dispatchUp(s1, render(prev, s1), Tail(listeners), flush)
           ELSE dispatchUp(prev, s1, Tail(listeners), flush)

\* a pointerup event on window; { once: true } removes every listener called
pointerUp(s, flush) ==
  dispatchUp(s, [s EXCEPT !.upListeners = <<>>], s.upListeners, flush)

(***************************************************************************)
(* The state machine.                                                      *)
(***************************************************************************)
\* every cell has the value it has in s0; no event has happened
InitWith(s0) ==
  /\ forest = s0.forest
  /\ selectedId = s0.selectedId
  /\ panelOpen = s0.panelOpen
  /\ collapsed = s0.collapsed
  /\ editingNodeId = s0.editingNodeId
  /\ nodeDraft = s0.nodeDraft
  /\ changeLog = s0.changeLog
  /\ deleteDialog = s0.deleteDialog
  /\ reassignTargetId = s0.reassignTargetId
  /\ drag = s0.drag
  /\ dropTargetId = s0.dropTargetId
  /\ dropTargetRef = s0.dropTargetRef
  /\ dragRef = s0.dragRef
  /\ overlay = s0.overlay
  /\ upListeners = s0.upListeners
  /\ now = s0.now
  /\ groupName = s0.groupName
  /\ dims = s0.dims
  /\ editingGroup = s0.editingGroup
  /\ groupDraft = s0.groupDraft
  /\ editingDimIndex = s0.editingDimIndex
  /\ dimDraft = s0.dimDraft
  /\ committedAt = s0.committedAt
  /\ committedGroupName = s0.committedGroupName
  /\ query = s0.query
  /\ lastOp = [op |-> "init", a |-> NULL, b |-> NULL]

Init == InitWith(InitState)

\* one event: the handler's updates r, the render after them, a clock tick
Event(op, a, b, r) ==
  /\ LET s == render(St, r)
     IN  /\ forest' = s.forest
         /\ selectedId' = s.selectedId
         /\ panelOpen' = s.panelOpen
         /\ collapsed' = s.collapsed
         /\ editingNodeId' = s.editingNodeId
         /\ nodeDraft' = s.nodeDraft
         /\ changeLog' = s.changeLog
         /\ deleteDialog' = s.deleteDialog
         /\ reassignTargetId' = s.reassignTargetId
         /\ drag' = s.drag
         /\ dropTargetId' = s.dropTargetId
         /\ dropTargetRef' = s.dropTargetRef
         /\ dragRef' = s.dragRef
         /\ overlay' = s.overlay
         /\ upListeners' = s.upListeners
         /\ groupName' = s.groupName
         /\ dims' = s.dims
         /\ editingGroup' = s.editingGroup
         /\ groupDraft' = s.groupDraft
         /\ editingDimIndex' = s.editingDimIndex
         /\ dimDraft' = s.dimDraft
         /\ committedAt' = s.committedAt
         /\ committedGroupName' = s.committedGroupName
         /\ query' = s.query
  /\ now' = now + 1
  /\ lastOp' = [op |-> op, a |-> a, b |-> b]

\* no drag session: the pointer is free to reach the other controls
Idle == now < MaxTime /\ drag = NoDrag

\* a drag session: the pointer is captured, until pointer-up only moves arrive
Dragging == now < MaxTime /\ drag # NoDrag

SelectNode ==
  /\ Idle
  /\ \E n \in renderedIds(St) :
       Event("selectNode", n, NULL, selectNode(St, n))

ClosePanel ==
  /\ Idle /\ panelOpen /\ selectedNode(St) # NoNode
  /\ Event("closePanel", NULL, NULL, closePanel(St))

ShowOverlay ==
  /\ Idle
  /\ \E n \in renderedIds(St) :
       Event("showOverlayForNode", n, NULL, showOverlayForNode(St, n))

HideOverlay ==
  /\ Idle /\ overlay # NULL
  /\ Event("hideOverlay", NULL, NULL, hideOverlay(St))

ToggleCollapsed ==
  /\ Idle
  /\ \E n \in renderedIds(St) :
       /\ canToggle(St, n)
       /\ Event("toggleCollapsed", n, NULL, toggleCollapsed(St, n))

\* the + button of the overlay
AddChildRight ==
  /\ Idle /\ overlay # NULL
  /\ \E newId \in UidDraws :
       Event("addChildRight", overlay, newId, addChildRight(St, overlay, newId))

\* the + button of the first level header
AddRegion ==
  /\ Idle
  /\ \E newId \in UidDraws :
       Event("addRegion", newId, NULL, addRegion(St, newId))

\* the delete button of the overlay
RequestDeleteOverlay ==
  /\ Idle /\ overlay # NULL
  /\ Event("requestDeleteNode", overlay, NULL, requestDeleteNode(St, overlay))

\* the delete link of the side panel
RequestDeletePanel ==
  /\ Idle /\ panelOpen /\ selectedNode(St) # NoNode
  /\ Event("requestDeleteNode", selectedId, NULL,
           requestDeleteNode(St, selectedId))

CloseDeleteDialog ==
  /\ Idle /\ dialogShown(St)
  /\ Event("closeDeleteDialog", NULL, NULL, closeDeleteDialog(St))

\* the select of the dialog: its options are the empty one and reassignOptions
SetReassignTargetId ==
  /\ Idle /\ dialogShown(St) /\ deleteHasChildren(St)
  /\ \E v \in reassignOptions(St) \cup {NULL} :
       Event("setReassignTargetId", v, NULL, setReassignTargetId(St, v))

ConfirmDeleteWithChildren ==
  /\ Idle /\ dialogShown(St)
  /\ Event("confirmDeleteWithChildren", deleteDialog.nodeId, NULL,
           confirmDeleteWithChildren(St))

\* the button is drawn for a node with children and disabled without a target
ConfirmReassignChildren ==
  /\ Idle /\ dialogShown(St) /\ deleteHasChildren(St)
  /\ reassignTargetId # NULL
  /\ Event("confirmReassignChildren", deleteDialog.nodeId, reassignTargetId,
           confirmReassignChildren(St))

\* the input of the node under edit is drawn when that node is
SetNodeDraft ==
  /\ Idle /\ editingNodeId \in renderedIds(St)
  /\ \E d \in NodeDrafts :
       Event("setNodeDraft", NULL, NULL, setNodeDraft(St, d))

\* Enter or blur
CommitRenameNode ==
  /\ Idle /\ editingNodeId \in renderedIds(St)
  /\ Event("commitRenameNode", editingNodeId, NULL, commitRenameNode(St))

\* Escape
CancelRenameNode ==
  /\ Idle /\ editingNodeId \in renderedIds(St)
  /\ Event("cancelRenameNode", editingNodeId, NULL, cancelRenameNode(St))

\* pointer-down on a drag handle
StartDrag ==
  /\ Idle
  /\ \E n \in renderedIds(St) :
       Event("startDrag", n, NULL, startDrag(St, n))

PointerMove ==
  /\ Dragging /\ drag.moves < MaxMoves
  /\ \E over \in renderedIds(St) \cup {NULL} :
       Event("onMove", over, NULL, onMove(St, over))

PointerUp ==
  /\ Dragging
  /\ \E flush \in BOOLEAN :
       Event("pointerUp", dragRef.draggingId, dropTargetRef,
             pointerUp(St, flush))

Next ==
  \/ SelectNode
  \/ ClosePanel
  \/ ShowOverlay
  \/ HideOverlay
  \/ ToggleCollapsed
  \/ AddChildRight
  \/ AddRegion
  \/ RequestDeleteOverlay
  \/ RequestDeletePanel
  \/ CloseDeleteDialog
  \/ SetReassignTargetId
  \/ ConfirmDeleteWithChildren
  \/ ConfirmReassignChildren
  \/ SetNodeDraft
  \/ CommitRenameNode
  \/ CancelRenameNode
  \/ StartDrag
  \/ PointerMove
  \/ PointerUp

Spec == Init /\ [][Next]_vars

(***************************************************************************)
(* The mutating operations called directly, with every pair of ids as      *)
(* arguments: the controls of the page hand them valid pairs only (the     *)
(* hit test skips the dragged node, onMove its descendants, the select     *)
(* offers reassignOptions), so their guards are exercised here.            *)
(***************************************************************************)
CallMoveNodeAsChild ==
  /\ now < MaxCalls
  /\ \E n \in Ids, t \in Ids :
       Event("moveNodeAsChild", n, t,
             [St EXCEPT !.forest = moveNodeAsChild(forest, n, t).forest])

CallFinishDrag ==
  /\ now < MaxCalls
  /\ \E n \in Ids, t \in Ids \cup {NULL} :
       Event("finishDrag", n, t, finishDrag(St, forest, t, n))

CallConfirmReassignChildren ==
  /\ now < MaxCalls
  /\ \E n \in Ids, t \in Ids :
       Event("confirmReassignChildren", n, t,
             confirmReassignChildren(
               [St EXCEPT !.deleteDialog = [open |-> TRUE, nodeId |-> n],
                          !.reassignTargetId = t]))

NextCalls ==
  \/ CallMoveNodeAsChild
  \/ CallFinishDrag
  \/ CallConfirmReassignChildren

SpecCalls == Init /\ [][NextCalls]_vars

(***************************************************************************)
(* The labels, apply and the reset of the draft, together with the         *)
(* handlers that add, rename and delete a node.                            *)
(***************************************************************************)
\* the indices of the level headers drawn
dimIndices(s) == 0..(Len(s.dims) - 1)

\* the rename item of the group menu
StartRenameGroup ==
  /\ Idle
  /\ Event("startRenameGroup", NULL, NULL, startRenameGroup(St))

SetGroupDraft ==
  /\ Idle /\ editingGroup
  /\ \E d \in LabelDrafts :
       Event("setGroupDraft", NULL, NULL, setGroupDraft(St, d))

\* Enter or the check button
CommitRenameGroup ==
  /\ Idle /\ editingGroup
  /\ Event("commitRenameGroup", NULL, NULL, commitRenameGroup(St))

\* Escape or the cross button
CancelRenameGroup ==
  /\ Idle /\ editingGroup
  /\ Event("cancelRenameGroup", NULL, NULL, cancelRenameGroup(St))

\* the rename item of a level menu; the menu is drawn unless the level is
\* under edit
StartRenameDim ==
  /\ Idle
  /\ \E index \in dimIndices(St) \ {editingDimIndex} :
       Event("startRenameDim", NULL, NULL, startRenameDim(St, index))

SetDimDraft ==
  /\ Idle /\ editingDimIndex \in dimIndices(St)
  /\ \E d \in LabelDrafts :
       Event("setDimDraft", NULL, NULL, setDimDraft(St, d))

CommitRenameDim ==
  /\ Idle /\ editingDimIndex \in dimIndices(St)
  /\ Event("commitRenameDim", NULL, NULL, commitRenameDim(St))

CancelRenameDim ==
  /\ Idle /\ editingDimIndex \in dimIndices(St)
  /\ Event("cancelRenameDim", NULL, NULL, cancelRenameDim(St))

AddDimLeft ==
  /\ Idle /\ Len(dims) < MaxDims
  /\ \E index \in dimIndices(St) \ {editingDimIndex} :
       Event("addDimLeft", NULL, NULL, addDimLeft(St, index))

AddDimRight ==
  /\ Idle /\ Len(dims) < MaxDims
  /\ \E index \in dimIndices(St) \ {editingDimIndex} :
       Event("addDimRight", NULL, NULL, addDimRight(St, index))

\* the apply button, disabled without pending changes
ApplyChanges ==
  /\ Idle /\ hasPendingChanges(St)
  /\ Event("applyChanges", NULL, NULL, applyChanges(St))

\* the reset item of the group menu
ResetDraft ==
  /\ Idle
  /\ Event("resetDraft", NULL, NULL, resetDraft(St))

NextLabels ==
  \/ StartRenameGroup
  \/ SetGroupDraft
  \/ CommitRenameGroup
  \/ CancelRenameGroup
  \/ StartRenameDim
  \/ SetDimDraft
  \/ CommitRenameDim
  \/ CancelRenameDim
  \/ AddDimLeft
  \/ AddDimRight
  \/ ApplyChanges
  \/ ResetDraft
  \/ ShowOverlay
  \/ AddChildRight
  \/ AddRegion
  \/ SetNodeDraft
  \/ CommitRenameNode
  \/ RequestDeletePanel
  \/ ConfirmDeleteWithChildren

SpecLabels == Init /\ [][NextLabels]_vars

(***************************************************************************)
(* The view: collapse and expand, by node and by level, on forests of      *)
(* every shape of up to MaxNodes nodes.                                    *)
(***************************************************************************)
\* the ids of the nodes of a sample forest, in depth-first order
IdOrder == <<"n2", "n3", "n4", "n5", "n1">>

\* the forests of n nodes whose ids are IdOrder[first], IdOrder[first + 1], ...
\* in depth-first order: a first tree of k nodes, then a forest of n - k
RECURSIVE forestsOf(_, _)
forestsOf(first, n) ==
  IF n = 0 THEN { <<>> }
  ELSE UNION { { <<[id       |-> IdOrder[first],
                    name     |-> <<"N">>,
                    children |-> c]>> \o rest :
                   c \in forestsOf(first + 1, k - 1),
                   rest \in forestsOf(first + k, n - k) } : k \in 1..n }

SampleForests == UNION { forestsOf(1, n) : n \in 0..MaxNodes }

InitView == \E f \in SampleForests : InitWith([InitState EXCEPT !.forest = f])

\* the chevron of a level header, drawn unless the level is under edit
ToggleLevel ==
  /\ Idle
  /\ \E index \in dimIndices(St) \ {editingDimIndex} :
       Event("toggleLevel", index, NULL, toggleLevel(St, index))

NextView ==
  \/ ToggleCollapsed
  \/ ToggleLevel
  \/ ShowOverlay
  \/ AddChildRight

SpecView == InitView /\ [][NextView]_vars

(***************************************************************************)
(* The search input, for every query of up to MaxQueryLen characters.      *)
(***************************************************************************)
\* what the user can type into the search input and into a name
QueryChars == {"a", "A", "b", "+", ".", "(", " "}

RECURSIVE textsOver(_, _)
\* the texts of up to n characters of chars
textsOver(chars, n) ==
  IF n = 0 THEN { <<>> }
  ELSE LET shorter == textsOver(chars, n - 1)
       IN  shorter \cup { Append(t, c) : t \in shorter, c \in chars }

SetQuery ==
  /\ now < MaxCalls
  /\ \E value \in textsOver(QueryChars, MaxQueryLen) :
       Event("setQuery", value, NULL, setQuery(St, value))

NextSearch == SetQuery

SpecSearch == Init /\ [][NextSearch]_vars

(***************************************************************************)
(* Adding a root and a child to forests whose sibling names hold default   *)
(* names, numbered ones among them.                                        *)
(***************************************************************************)
\* the ids and the names of the roots of a sample forest, and of the children
\* of its first root
SampleRootIds == <<"n1", "n2", "n3">>
SampleChildIds == <<"n4", "n5">>
SampleRootNames ==
  { NewRegionBase, NewRegionBase \o <<" ", "2">>, NewRegionBase \o <<" ", "3">> }
SampleChildNames ==
  { NewElementBase, NewElementBase \o <<" ", "2">>, NewElementBase \o <<" ", "3">> }

\* the sequences of up to n elements of S
seqsOver(S, n) == UNION { [1..k -> S] : k \in 0..n }

\* leaves with these ids and these names
leavesOf(ids, names) ==
  [i \in DOMAIN names |-> makeNode(ids[i], names[i], <<>>)]

NamedForests ==
  { [i \in DOMAIN rn |->
       makeNode(SampleRootIds[i], rn[i],
                IF i = 1 THEN leavesOf(SampleChildIds, cn) ELSE <<>>)] :
      rn \in seqsOver(SampleRootNames, Len(SampleRootIds)),
      cn \in seqsOver(SampleChildNames, Len(SampleChildIds)) }

InitNames == \E f \in NamedForests : InitWith([InitState EXCEPT !.forest = f])

\* the + button of the first level header
CallAddRegion ==
  /\ now < MaxAdds
  /\ \E newId \in UidDraws :
       Event("addRegion", newId, NULL, addRegion(St, newId))

\* the + button of the overlay of a node
CallAddChildRight ==
  /\ now < MaxAdds
  /\ \E parentId \in renderedIds(St), newId \in UidDraws :
       Event("addChildRight", parentId, newId,
             addChildRight(St, parentId, newId))

NextNames ==
  \/ CallAddRegion
  \/ CallAddChildRight

SpecNames == InitNames /\ [][NextNames]_vars

(***************************************************************************)
(* addChange on ledgers of every length of LedgerLens.  The entries of a   *)
(* sample ledger are those of committed group and level renames that kept  *)
(* the name: such a run leaves every other cell as it was constructed.     *)
(***************************************************************************)
LedgerLens == {0, 1, LogCap - 1, LogCap}

SummaryKinds ==
  {"addChild", "addRegion", "deleteCascade", "deleteReassign", "renameNode",
   "move", "renameGroup", "renameDim", "addDim", "resetDraft"}

sampleLedger(k) ==
  [i \in 1..k |->
     [summary |-> IF i % 3 = 0 THEN "renameGroup" ELSE "renameDim"]]

InitLedger ==
  \E k \in LedgerLens :
    InitWith([InitState EXCEPT !.changeLog = sampleLedger(k)])

CallAddChange ==
  /\ now < MaxCalls
  /\ \E summary \in SummaryKinds :
       Event("addChange", summary, NULL, addChange(St, summary))

NextLedger == CallAddChange

SpecLedger == InitLedger /\ [][NextLedger]_vars

(***************************************************************************)
(* The vocabulary of the properties: a forest read as a set of ids, each   *)
(* with its name and the ordered ids of its children.  It is defined on    *)
(* positions (index paths), not through the searches of the source.        *)
(***************************************************************************)
IdSeq(nodes) == [i \in DOMAIN nodes |-> nodes[i].id]

RECURSIVE Rows(_)
\* one row for each node, in depth-first order: its id, its name, the ids
\* of its children in their order, and the ids of the nodes below it
Rows(nodes) ==
  IF nodes = <<>> THEN <<>>
  ELSE LET h   == Head(nodes)
           sub == Rows(h.children)
       IN  << [ id    |-> h.id,
                name  |-> h.name,
                kids  |-> IdSeq(h.children),
                below |-> { sub[i].id : i \in DOMAIN sub } ] >>
             \o sub \o Rows(Tail(nodes))

IdSet(f) == LET r == Rows(f) IN { r[i].id : i \in DOMAIN r }

\* every id occurs once in the forest
UniqueIds(f) ==
  LET r == Rows(f) IN \A i, j \in DOMAIN r : r[i].id = r[j].id => i = j

\* the forest as a function from its ids to their rows
Rel(f) ==
  LET r == Rows(f)
  IN  [ x \in { r[i].id : i \in DOMAIN r } |->
          r[CHOOSE i \in DOMAIN r : r[i].id = x] ]

KidIds(f, id) == Rel(f)[id].kids

RootIds(f) == IdSeq(f)

\* the ids of the nodes below the node with this id
Desc(f, id) == IF id \in IdSet(f) THEN Rel(f)[id].below ELSE {}

Without(seq, x) == SelectSeq(seq, LAMBDA e : e # x)

\* W holds the nodes of V except those in gone, each with its name
SameNodesExcept(V, W, gone) ==
  /\ DOMAIN W = (DOMAIN V) \ gone
  /\ \A x \in DOMAIN W : W[x].name = V[x].name

\* in W every node but those of special has the children it had in V, less n
SameKidsExcept(V, W, special, n) ==
  \A x \in (DOMAIN W) \ special : W[x].kids = Without(V[x].kids, n)

\* the dialog of s opened on node n with target t chosen
withDialog(s, n, t) ==
  [s EXCEPT !.deleteDialog = [open |-> TRUE, nodeId |-> n],
            !.reassignTargetId = t]

(***************************************************************************)
(* C1.  In a forest of distinct ids, for a node n and a target t that is n *)
(* itself or a descendant of n: moveNodeAsChild reports moved = false and  *)
(* returns the forest it was given, finishDrag leaves the forest and the   *)
(* ledger as they are, and confirmReassignChildren changes nothing at all. *)
(***************************************************************************)
C1_CycleRejected ==
  UniqueIds(forest) =>
    \A n \in IdSet(forest) : \A t \in {n} \cup Desc(forest, n) :
      /\ moveNodeAsChild(forest, n, t) = [forest |-> forest, moved |-> FALSE]
      /\ LET r == finishDrag(St, forest, t, n)
         IN  r.forest = forest /\ r.changeLog = changeLog
      /\ confirmReassignChildren(withDialog(St, n, t)) = withDialog(St, n, t)

\* a reassign-delete onto a descendant has been called and turned down
C1_Witness ==
  /\ lastOp.op = "confirmReassignChildren"
  /\ UniqueIds(forest)
  /\ lastOp.a \in IdSet(forest)
  /\ lastOp.b \in Desc(forest, lastOp.a)
  /\ changeLog = <<>>

(***************************************************************************)
(* C2.  In every reachable state every node id occurs exactly once in the  *)
(* forest: the id uid() hands to a new node is the id of no node present.  *)
(***************************************************************************)
C2_IdsUnique == UniqueIds(forest)

(***************************************************************************)
(* C3.  A pointer-up that ends a drag with a drop target set appends       *)
(* exactly one entry to the ledger, however many pointer-moves came before *)
(* it and however many pointerup listeners the drag effect has registered. *)
(***************************************************************************)
C3_OneEntryPerDrop ==
  [][ (lastOp'.op = "pointerUp" /\ lastOp'.b # NULL /\ UniqueIds(forest))
        => Len(changeLog') = Len(changeLog) + 1 ]_vars

(***************************************************************************)
(* C4.  A step that deletes a node n, by cascade or by reassigning its     *)
(* children, leaves none of selectedId, editingNodeId and the overlay's    *)
(* node equal to n.                                                        *)
(***************************************************************************)
C4_DeletedNotReferenced ==
  [][ ( /\ lastOp'.op \in {"confirmDeleteWithChildren", "confirmReassignChildren"}
        /\ UniqueIds(forest)
        /\ lastOp'.a \in IdSet(forest)
        /\ lastOp'.a \notin IdSet(forest') )
        => /\ selectedId' # lastOp'.a
           /\ editingNodeId' # lastOp'.a
           /\ overlay' # lastOp'.a ]_vars

(***************************************************************************)
(* C5.  In every step of a handler other than apply and the reset of the   *)
(* draft: the ledger changes only if the forest, the dimension labels or   *)
(* the group name change, and if one of them changes the ledger gains      *)
(* exactly one entry at its end.                                           *)
(***************************************************************************)
C5_LogIffMutation ==
  [][ lastOp'.op \notin {"applyChanges", "resetDraft"}
        => /\ changeLog' # changeLog =>
                (forest' # forest \/ dims' # dims \/ groupName' # groupName)
           /\ (forest' # forest \/ dims' # dims \/ groupName' # groupName) =>
                /\ Len(changeLog') = Len(changeLog) + 1
                /\ SubSeq(changeLog', 1, Len(changeLog)) = changeLog ]_vars

(***************************************************************************)
(* C6.  Reassign-delete of n with target t, both present in a forest of    *)
(* distinct ids, t not n and not below n: afterwards n is absent and every *)
(* other node is present with its name; the children of t are its former   *)
(* children followed by the former children of n, in their order; every    *)
(* other node has the children it had; the roots are the former roots      *)
(* without n, in their order.                                              *)
(***************************************************************************)
C6_ReassignDelete ==
  UniqueIds(forest) =>
    LET V == Rel(forest)
    IN  \A n \in DOMAIN V : \A t \in (DOMAIN V) \ ({n} \cup V[n].below) :
          LET g == confirmReassignChildren(withDialog(St, n, t)).forest
              W == Rel(g)
          IN  /\ UniqueIds(g)
              /\ SameNodesExcept(V, W, {n})
              /\ RootIds(g) = Without(RootIds(forest), n)
              /\ W[t].kids = Without(V[t].kids, n) \o V[n].kids
              /\ SameKidsExcept(V, W, {t}, n)

\* the dialog's reassign button has removed a node and handed two children,
\* or a child to a node that has another, to the target
C6_Witness ==
  /\ lastOp.op = "confirmReassignChildren"
  /\ UniqueIds(forest)
  /\ lastOp.a \notin IdSet(forest)
  /\ lastOp.b \in IdSet(forest)
  /\ Len(KidIds(forest, lastOp.b)) >= 2

(***************************************************************************)
(* C7.  Cascade-delete of n, present in a forest of distinct ids, root or  *)
(* child: afterwards exactly n and the nodes below it are absent, every    *)
(* other node has its name and the children it had (without n), and the    *)
(* roots are the former roots without n, in their order.                   *)
(***************************************************************************)
C7_CascadeDelete ==
  UniqueIds(forest) =>
    LET V == Rel(forest)
    IN  \A n \in DOMAIN V :
          LET g == deleteNodeAndChildren(St, n).forest
              W == Rel(g)
          IN  /\ UniqueIds(g)
              /\ SameNodesExcept(V, W, {n} \cup V[n].below)
              /\ RootIds(g) = Without(RootIds(forest), n)
              /\ SameKidsExcept(V, W, {}, n)

\* the dialog's delete button has removed a child together with a subtree
C7_Witness ==
  /\ lastOp.op = "confirmDeleteWithChildren"
  /\ UniqueIds(forest)
  /\ lastOp.a \notin IdSet(forest)
  /\ Len(forest) = Len(initialForest)
  /\ Cardinality(IdSet(forest)) <= Cardinality(IdSet(initialForest)) - 2

(***************************************************************************)
(* C8.  A pointer-up of a drag of n with drop target t, both present in a  *)
(* forest of distinct ids, t not n and not below n, whether or not a       *)
(* render separates the pointerup listeners: afterwards every node is      *)
(* present with its name, n is the last child of t and a child or root     *)
(* nowhere else, every other node has the children it had, t is not        *)
(* collapsed, n is selected, and no drag session, drop target or pending   *)
(* listener is left.                                                       *)
(***************************************************************************)
C8_DropCommits ==
  (drag # NoDrag /\ UniqueIds(forest)) =>
    LET n == dragRef.draggingId
        V == Rel(forest)
    IN  \A t \in (DOMAIN V) \ ({n} \cup V[n].below) :
          \A flush \in BOOLEAN :
            LET s == [St EXCEPT !.dropTargetId = t, !.dropTargetRef = t]
                r == render(s, pointerUp(s, flush))
                g == r.forest
                W == Rel(g)
            IN  /\ UniqueIds(g)
                /\ SameNodesExcept(V, W, {})
                /\ RootIds(g) = Without(RootIds(forest), n)
                /\ W[t].kids = Without(V[t].kids, n) \o <<n>>
                /\ SameKidsExcept(V, W, {t}, n)
                /\ t \notin r.collapsed
                /\ r.selectedId = n
                /\ r.drag = NoDrag /\ r.dragRef = NoDrag
                /\ r.dropTargetId = NULL /\ r.dropTargetRef = NULL
                /\ r.upListeners = <<>>

\* a root has been dropped onto a node that has other children
C8_Witness ==
  /\ lastOp.op = "pointerUp"
  /\ lastOp.b # NULL
  /\ UniqueIds(forest)
  /\ Len(forest) < Len(initialForest)
  /\ Len(KidIds(forest, lastOp.b)) >= 2
  /\ selectedId = lastOp.a
  /\ drag = NoDrag

C10_DropTargetValid ==
  (drag # NoDrag /\ UniqueIds(forest)) =>
    LET n == dragRef.draggingId
    IN  /\ \A c \in renderedIds(St) \cup {NULL} :
             onMove(St, c).dropTargetId =
               IF c = NULL \/ c = n \/ c \in Desc(forest, n) THEN NULL ELSE c
        /\ dropTargetId # NULL =>
             dropTargetId # n /\ dropTargetId \notin Desc(forest, n)

\* the pointer has moved over a node below the dragged one
C10_Witness ==
  /\ lastOp.op = "onMove"
  /\ drag # NoDrag
  /\ UniqueIds(forest)
  /\ lastOp.a \in Desc(forest, drag.draggingId)
  /\ dropTargetId = NULL

(***************************************************************************)
(* C11.  A pointer-up of a drag with no drop target set, whether or not a  *)
(* render separates the pointerup listeners, changes neither the forest,   *)
(* the ledger, the collapsed set nor the selection, and leaves no drag     *)
(* session, drop target or pending listener.                               *)
(***************************************************************************)
C11_CancelNoMutation ==
  (drag # NoDrag /\ dropTargetRef = NULL) =>
    \A flush \in BOOLEAN :
      LET r == render(St, pointerUp(St, flush))
      IN  /\ r.forest = forest
          /\ r.changeLog = changeLog
          /\ r.collapsed = collapsed
          /\ r.selectedId = selectedId
          /\ r.drag = NoDrag /\ r.dragRef = NoDrag
          /\ r.dropTargetId = NULL /\ r.dropTargetRef = NULL
          /\ r.upListeners = <<>>

\* a drag has ended on a pointer-up without drop target
C11_Witness ==
  /\ lastOp.op = "pointerUp"
  /\ lastOp.a # NULL
  /\ lastOp.b = NULL
  /\ drag = NoDrag

(***************************************************************************)
(* C12.  The ledger never holds more than 80 entries; addChange appends    *)
(* the new entry at the end, and on a ledger of 80 entries the result is   *)
(* the 79 entries after the oldest, in their order, followed by the new    *)
(* entry.                                                                  *)
(***************************************************************************)
C12_LedgerCap ==
  /\ Len(changeLog) <= LogCap
  /\ \A summary \in SummaryKinds :
       addChange(St, summary).changeLog =
         IF Len(changeLog) = LogCap
         THEN Tail(changeLog) \o <<[summary |-> summary]>>
         ELSE Append(changeLog, [summary |-> summary])

\* a second entry has been appended to a ledger that is full
C12_Witness ==
  /\ lastOp.op = "addChange"
  /\ now = 2
  /\ Len(changeLog) = LogCap
  /\ changeLog[LogCap].summary = lastOp.a

(***************************************************************************)
(* C13.  A step of apply empties the ledger, stores the group name of that *)
(* moment as the applied label and the time of the step as the applied     *)
(* timestamp, which differs from the one before, and leaves the forest,    *)
(* the dimension labels and the collapsed set as they were; no other step  *)
(* changes the applied label or timestamp; and once apply has emptied the  *)
(* ledger, it stays empty in every step of a handler other than the reset  *)
(* of the draft that changes none of the forest, the dimension labels and  *)
(* the group name.                                                         *)
(***************************************************************************)
C13_ApplyClearsLedger ==
  [][ /\ lastOp'.op = "applyChanges" =>
           /\ changeLog' = <<>>
           /\ committedGroupName' = groupName
           /\ committedAt' = now
           /\ committedAt' # committedAt
           /\ forest' = forest
           /\ dims' = dims
           /\ collapsed' = collapsed
      /\ lastOp'.op # "applyChanges" =>
           /\ committedGroupName' = committedGroupName
           /\ committedAt' = committedAt
      /\ ( /\ committedAt # 0
           /\ changeLog = <<>>
           /\ lastOp'.op # "resetDraft"
           /\ forest' = forest
           /\ dims' = dims
           /\ groupName' = groupName )
           => changeLog' = <<>> ]_vars

(***************************************************************************)
(* C14.  A step of add-child, of the commit of a node rename, of a move or *)
(* a drop, of the cascade delete or of the reassign delete whose node id   *)
(* (or target id, for a move and a reassign delete) is not the id of a     *)
(* node of the forest leaves the forest and the ledger as they were.       *)
(***************************************************************************)
C14_AbsentIdNoOp ==
  [][ ( \/ /\ lastOp'.op \in {"addChildRight", "confirmDeleteWithChildren"}
           /\ lastOp'.a \notin IdSet(forest)
        \/ /\ lastOp'.op = "commitRenameNode"
           /\ editingNodeId \notin IdSet(forest)
        \/ /\ lastOp'.op \in {"moveNodeAsChild", "finishDrag", "pointerUp",
                              "confirmReassignChildren"}
           /\ lastOp'.b # NULL
           /\ (lastOp'.a \notin IdSet(forest) \/ lastOp'.b \notin IdSet(forest)) )
        => /\ forest' = forest
           /\ changeLog' = changeLog ]_vars

(***************************************************************************)
(* C15.  In every state, the commit of a node rename, of a level rename    *)
(* and of the group rename whose draft trims to the empty string writes    *)
(* nothing: every state cell is as before, among them the forest, the      *)
(* names, the labels, the ledger, the id or index under edit and the       *)
(* draft.                                                                  *)
(***************************************************************************)
C15_BlankCommitIgnored ==
  /\ trim(nodeDraft) = <<>> =>
       render(St, commitRenameNode(St)) = render(St, St)
  /\ trim(dimDraft) = <<>> =>
       render(St, commitRenameDim(St)) = render(St, St)
  /\ trim(groupDraft) = <<>> =>
       render(St, commitRenameGroup(St)) = render(St, St)
  /\ render(St, St) = St

\* the group name is under edit and Enter has been pressed on a blank draft
C15_Witness ==
  /\ lastOp.op = "commitRenameGroup"
  /\ editingGroup
  /\ groupDraft # <<>>
  /\ trim(groupDraft) = <<>>
  /\ groupName = DefaultGroupName
  /\ changeLog = <<>>

\* the rows of the leaves of a forest, in depth-first order
LeafRows(f) == SelectSeq(Rows(f), LAMBDA row : row.kids = <<>>)

\* layoutForest(f) gives every node of f a position, level 0 to the roots and
\* one more than its parent's to a child, and to the j-th leaf in depth-first
\* order the y j - 1
LevelsAndLeaves(f) ==
  LET p      == layoutForest(f)
      r      == Rows(f)
      leaves == LeafRows(f)
  IN  /\ DOMAIN p = IdSet(f)
      /\ \A i \in DOMAIN f : p[f[i].id].level = 0
      /\ \A i \in DOMAIN r :
           /\ \A k \in DOMAIN r[i].kids :
                p[r[i].kids[k]].level = p[r[i].id].level + 1
           /\ \A d \in r[i].below : p[d].level > p[r[i].id].level
      /\ \A j \in DOMAIN leaves : p[leaves[j].id].y = Rat(j - 1, 1)
      /\ { p[leaves[j].id].y : j \in DOMAIN leaves }
           = { Rat(y, 1) : y \in 0..(Len(leaves) - 1) }

(***************************************************************************)
(* C16.  For the forest and for the visible forest of every state, when    *)
(* the ids of the forest are distinct: layoutForest gives every node a     *)
(* position; a root has level 0; a child has the level of its parent plus  *)
(* one, so a node below another has a greater level; and the y of the      *)
(* leaves are 0, 1, ..., k - 1 in depth-first order, k the number of       *)
(* leaves.                                                                 *)
(***************************************************************************)
C16_LevelsAndLeaves ==
  UniqueIds(forest) =>
    /\ LevelsAndLeaves(forest)
    /\ LevelsAndLeaves(visibleForest(St))

\* a forest of three levels and three leaves or more, one node collapsed
C16_Witness ==
  /\ lastOp.op = "toggleCollapsed"
  /\ UniqueIds(forest)
  /\ maxLevel(forest) >= 2
  /\ Len(LeafRows(forest)) >= 3
  /\ collapsed # {}
  /\ pos(St) # posFull(St)

\* a <= b and b - a >= 1, for two numbers of the layout
RatLe(a, b) == a.num * b.den <= b.num * a.den

RatApart(a, b) == b.num * a.den - a.num * b.den >= a.den * b.den

\* in layoutForest(f): k times the y of a node of k children is the sum of
\* their y; the y of a node is between the least and the greatest y of the
\* leaves at or below it; two nodes of one level are 1 apart or more, and no
\* two nodes have the same level and y
MeansAndGaps(f) ==
  LET p == layoutForest(f)
      r == Rows(f)
  IN  /\ \A i \in DOMAIN r :
           LET row   == r[i]
               kidYs == [k \in DOMAIN row.kids |-> p[row.kids[k]].y]
               leafs == { d \in row.below \cup {row.id} :
                            \E j \in DOMAIN r : r[j].id = d /\ r[j].kids = <<>> }
           IN  /\ row.kids # <<>> =>
                    Rat(p[row.id].y.num * Len(row.kids), p[row.id].y.den)
                      = reduceSum(kidYs, Rat(0, 1))
               /\ \E lo \in leafs : \E hi \in leafs :
                    /\ \A d \in leafs : RatLe(p[lo].y, p[d].y) /\ RatLe(p[d].y, p[hi].y)
                    /\ RatLe(p[lo].y, p[row.id].y)
                    /\ RatLe(p[row.id].y, p[hi].y)
      /\ \A a, b \in DOMAIN p :
           (a # b /\ p[a].level = p[b].level) =>
              (RatApart(p[a].y, p[b].y) \/ RatApart(p[b].y, p[a].y))
      /\ \A a, b \in DOMAIN p : a # b => p[a] # p[b]

(***************************************************************************)
(* C17.  For the forest and for the visible forest of every state, when    *)
(* the ids of the forest are distinct: in the result of layoutForest the y *)
(* of every node that has children is the mean of the y of its children    *)
(* and lies between the least and the greatest y of the leaves of its      *)
(* subtree; two distinct nodes of the same level have y that differ by 1   *)
(* or more; no two nodes have the same level and the same y.               *)
(***************************************************************************)
C17_MeansAndGaps ==
  UniqueIds(forest) =>
    /\ MeansAndGaps(forest)
    /\ MeansAndGaps(visibleForest(St))

\* a child has been added and a node lies half-way or a third of the way
\* between two leaves, two nodes sharing a level below the roots
C17_Witness ==
  /\ lastOp.op = "addChildRight"
  /\ UniqueIds(forest)
  /\ \E a \in DOMAIN posFull(St) : posFull(St)[a].y.den > 1
  /\ \E a, b \in DOMAIN posFull(St) :
       /\ a # b
       /\ posFull(St)[a].level = posFull(St)[b].level
       /\ posFull(St)[a].level >= 1

\* G, the visible forest of F under S: a node of F is in G exactly when no
\* node that it is below is in S; in G it has its name and its children in
\* their order, none if it is in S; the roots are those of F
VisibleOf(F, S, G) ==
  LET V == Rel(F)
      W == Rel(G)
  IN  /\ UniqueIds(G)
      /\ DOMAIN W = { x \in DOMAIN V :
                        \A a \in DOMAIN V : x \in V[a].below => a \notin S }
      /\ \A x \in DOMAIN W :
           /\ W[x].name = V[x].name
           /\ W[x].kids = IF x \in S THEN <<>> ELSE V[x].kids
      /\ RootIds(G) = RootIds(F)
      /\ S \cap DOMAIN V = {} => G = F

(***************************************************************************)
(* C18.  For the forest F of every state, when its ids are distinct, and   *)
(* every set S of ids: buildVisibleForest(F, S) holds a node of F exactly  *)
(* when none of the nodes above it is in S; a node in S has no children in *)
(* the result; every other node has its children in their order; and with  *)
(* S empty the result is F.                                                *)
(***************************************************************************)
C18_VisibleForest ==
  UniqueIds(forest) =>
    /\ \A S \in SUBSET (IdSet(forest) \cup {"n6"}) :
         VisibleOf(forest, S, buildVisibleForest(forest, S))
    /\ buildVisibleForest(forest, {}) = forest

\* a node with children has been collapsed: nodes are hidden, and one of the
\* hidden nodes is a collapsed one
C18_Witness ==
  /\ lastOp.op \in {"toggleCollapsed", "toggleLevel"}
  /\ UniqueIds(forest)
  /\ IdSet(visibleForest(St)) # IdSet(forest)
  /\ collapsed \ IdSet(visibleForest(St)) # {}
  /\ collapsed \cap IdSet(visibleForest(St)) # {}

\* the handlers of collapse and expand write the collapsed set alone
CollapseWritesCollapsedOnly ==
  /\ \A n \in Ids :
       /\ [render(St, toggleCollapsed(St, n)) EXCEPT !.collapsed = collapsed] = St
       /\ [render(St, expandNode(St, n)) EXCEPT !.collapsed = collapsed] = St
  /\ \A levelIndex \in 0..MaxDims :
       /\ [render(St, collapseToLevel(St, levelIndex)) EXCEPT
             !.collapsed = collapsed] = St
       /\ [render(St, expandFromLevel(St, levelIndex)) EXCEPT
             !.collapsed = collapsed] = St
       /\ [render(St, toggleLevel(St, levelIndex)) EXCEPT
             !.collapsed = collapsed] = St

\* collapsing a node that is expanded and expanding it again, with a second
\* toggle or with expandNode, gives the visible forest of before
CollapseExpandRoundTrip ==
  \A n \in Ids \ collapsed :
    LET c == toggleCollapsed(St, n)
    IN  /\ n \in c.collapsed
        /\ visibleForest(toggleCollapsed(c, n)) = visibleForest(St)
        /\ visibleForest(expandNode(c, n)) = visibleForest(St)

(***************************************************************************)
(* C19.  In every state toggleCollapsed, expandNode, collapseToLevel and   *)
(* expandFromLevel change the collapsed set and no other state cell, so    *)
(* not the forest and not the ledger; collapsing an expanded node and      *)
(* expanding it again gives the same visible forest; in every step of a    *)
(* collapse or expand control the forest and the ledger stay as they were; *)
(* and no step other than a delete or the reset of the draft replaces the  *)
(* forest by a pruned one: every node of the forest, those hidden under a  *)
(* collapsed node among them, is in the forest after the step.             *)
(***************************************************************************)
C19_CollapseOnlyChangesView ==
  /\ [](CollapseWritesCollapsedOnly /\ CollapseExpandRoundTrip)
  /\ [][ /\ lastOp'.op \in {"toggleCollapsed", "toggleLevel"} =>
              /\ forest' = forest
              /\ changeLog' = changeLog
         /\ lastOp'.op \notin {"confirmDeleteWithChildren",
                               "confirmReassignChildren", "resetDraft"} =>
              /\ IdSet(forest) \subseteq IdSet(forest')
              /\ Len(Rows(forest')) >= Len(Rows(forest)) ]_vars

\* a node with children has been collapsed and then expanded by its chevron,
\* and its children are drawn again
C19_Witness ==
  /\ lastOp.op = "toggleCollapsed"
  /\ lastOp.a \notin collapsed
  /\ now >= 2
  /\ canToggle(St, lastOp.a)
  /\ visibleForest(St) = forest
  /\ changeLog = <<>>

(***************************************************************************)
(* C20.  In every state there is a dimension label for every level that a  *)
(* node of the forest has: the number of labels is the greatest level of a *)
(* node plus one, or more, and the level that layoutForest gives a node is *)
(* an index of the labels.                                                 *)
(***************************************************************************)
C20_LabelPerLevel ==
  /\ Len(dims) >= maxLevel(forest) + 1
  /\ \A id \in DOMAIN posFull(St) : posFull(St)[id].level \in dimIndices(St)

\* name holds text, letters compared without regard to case
ContainsIgnoringCase(name, text) ==
  \E i \in 0..(Len(name) - Len(text)) :
    \A j \in 1..Len(text) : toUpperCase(name[i + j]) = toUpperCase(text[j])

(***************************************************************************)
(* C21, as stated.  For every query and every name: the match predicate is *)
(* false when the query is empty or all whitespace, and otherwise true     *)
(* exactly when the name holds the text of the query, character for        *)
(* character, without regard to case.                                      *)
(***************************************************************************)
C21_MatchesQueryText ==
  \A name \in textsOver(QueryChars, MaxQueryLen) :
    isMatch(St, name) =
      IF trim(query) = <<>> THEN FALSE ELSE ContainsIgnoringCase(name, query)

(***************************************************************************)
(* C21, amended.  For every query and every name: the match predicate is   *)
(* false when the query is empty or all whitespace, and otherwise true     *)
(* exactly when the name holds the text of the query without its leading   *)
(* and trailing whitespace, character for character, without regard to     *)
(* case, the characters of MetaChars being ordinary characters.            *)
(***************************************************************************)
C21_MatchesTrimmedQuery ==
  \A name \in textsOver(QueryChars, MaxQueryLen) :
    isMatch(St, name) =
      IF trim(query) = <<>> THEN FALSE
      ELSE ContainsIgnoringCase(name, trim(query))

\* a query of a space, a metacharacter and a letter has been typed; it
\* matches the name that holds the two in the other case, and not the name
\* that a repetition would match
C21_Witness ==
  /\ lastOp.op = "setQuery"
  /\ query = <<" ", "+", "a">>
  /\ isMatch(St, <<"b", "+", "A">>)
  /\ ~isMatch(St, <<"b", "b", "A">>)
  /\ ~isMatch(St, <<"+", "b", "a">>)

\* base when no sibling has it, or else base, a space and the least number
\* from 2 on that gives a name no sibling has
FirstFreeName(base, taken) ==
  IF base \notin taken THEN base
  ELSE LET numbered(k) == base \o <<" ">> \o numberToString(k)
           k == CHOOSE k \in 2..(Cardinality(taken) + 2) :
                  /\ numbered(k) \notin taken
                  /\ \A j \in 2..(k - 1) : numbered(j) \in taken
       IN  numbered(k)

\* the names of the nodes with these ids
NamesOf(V, ids) == { V[ids[i]].name : i \in DOMAIN ids }

(***************************************************************************)
(* C22.  In every state whose forest has distinct ids, for a new id:       *)
(* add-root leaves every node as it was and appends to the roots one node  *)
(* without children, named with the base name if no root has it, or else   *)
(* with the base name, a space and the least number from 2 on that no root *)
(* name uses; add-child on a node of the forest does the same at the end   *)
(* of the children of that node, with the names of those children; the new *)
(* name is the name of no sibling.                                         *)
(***************************************************************************)
C22_AddNamesNewNode ==
  UniqueIds(forest) =>
    LET V == Rel(forest)
    IN  \A newId \in UidDraws \ DOMAIN V :
          /\ LET g == addRegion(St, newId).forest
                 W == Rel(g)
             IN  /\ SubSeq(g, 1, Len(forest)) = forest
                 /\ Len(g) = Len(forest) + 1
                 /\ g[Len(g)].id = newId
                 /\ g[Len(g)].children = <<>>
                 /\ g[Len(g)].name =
                      FirstFreeName(NewRegionBase, NamesOf(V, RootIds(forest)))
                 /\ g[Len(g)].name \notin NamesOf(V, RootIds(forest))
          /\ \A parentId \in DOMAIN V :
               LET g == addChildRight(St, parentId, newId).forest
                   W == Rel(g)
               IN  /\ UniqueIds(g)
                   /\ DOMAIN W = DOMAIN V \cup {newId}
                   /\ RootIds(g) = RootIds(forest)
                   /\ \A x \in DOMAIN V :
                        /\ W[x].name = V[x].name
                        /\ W[x].kids = IF x = parentId
                                       THEN Append(V[x].kids, newId)
                                       ELSE V[x].kids
                   /\ W[newId].kids = <<>>
                   /\ W[newId].name =
                        FirstFreeName(NewElementBase, NamesOf(V, V[parentId].kids))
                   /\ W[newId].name \notin NamesOf(V, V[parentId].kids)

\* a root has been added to roots that hold the base name and the name
\* numbered 3: the new root is the last one and has the name numbered 2
C22_Witness ==
  /\ lastOp.op = "addRegion"
  /\ UniqueIds(forest)
  /\ Len(forest) = 3
  /\ forest[1].name = NewRegionBase \o <<" ", "3">>
  /\ forest[2].name = NewRegionBase
  /\ forest[3].id = lastOp.a
  /\ forest[3].name = NewRegionBase \o <<" ", "2">>

(***************************************************************************)
(* C23.  In every state whose forest has distinct ids, with a node of the  *)
(* forest under edit and a draft that does not trim to the empty string:   *)
(* the commit of the rename gives a forest with the same nodes in the same *)
(* depth-first order, each with the children it had in their order and,    *)
(* but for the node under edit, the name it had; the node under edit has   *)
(* the trimmed draft as its name.  And in every state every name of a node *)
(* of the forest has a character that is not whitespace.                   *)
(***************************************************************************)
C23_RenameChangesOneName ==
  /\ ( /\ UniqueIds(forest)
       /\ editingNodeId \in IdSet(forest)
       /\ trim(nodeDraft) # <<>> ) =>
       LET r == Rows(forest)
           g == Rows(commitRenameNode(St).forest)
       IN  /\ Len(g) = Len(r)
           /\ IdSeq(commitRenameNode(St).forest) = IdSeq(forest)
           /\ \A i \in DOMAIN r :
                /\ g[i].id = r[i].id
                /\ g[i].kids = r[i].kids
                /\ g[i].below = r[i].below
                /\ g[i].name = IF r[i].id = editingNodeId THEN trim(nodeDraft)
                               ELSE r[i].name
  /\ \A i \in DOMAIN Rows(forest) : trim(Rows(forest)[i].name) # <<>>

\* a new node has been renamed with a draft that ends in a space: it has the
\* draft without that space as its name
C23_Witness ==
  /\ lastOp.op = "commitRenameNode"
  /\ UniqueIds(forest)
  /\ editingNodeId = NULL
  /\ lastOp.a \in IdSet(forest)
  /\ Rel(forest)[lastOp.a].name = <<"X">>
  /\ Len(changeLog) = 2

(***************************************************************************)
(* C24.  In every state where the delete dialog is open for a node n of a  *)
(* forest of distinct ids, the options offered as targets are the nodes of *)
(* the forest other than n and the nodes below n, each once.  And in every *)
(* state, for every target id, when the reassign delete of the node of the *)
(* dialog changes the forest, the target is one of the options offered.    *)
(***************************************************************************)
C24_ReassignCandidates ==
  /\ ( /\ dialogShown(St)
       /\ UniqueIds(forest)
       /\ deleteDialog.nodeId \in IdSet(forest) ) =>
       LET opts == reassignOptionList(St)
       IN  /\ \A i, j \in DOMAIN opts : opts[i] = opts[j] => i = j
           /\ reassignOptions(St) =
                IdSet(forest) \ ({deleteDialog.nodeId}
                                   \cup Desc(forest, deleteDialog.nodeId))
  /\ \A t \in Ids \cup {NULL} :
       LET s == [St EXCEPT !.reassignTargetId = t]
       IN  confirmReassignChildren(s).forest # forest =>
             t \in reassignOptions(St)

\* the dialog is open for a node that has nodes below it, and one of the
\* options has been chosen as the target
C24_Witness ==
  /\ lastOp.op = "setReassignTargetId"
  /\ dialogShown(St)
  /\ UniqueIds(forest)
  /\ Desc(forest, deleteDialog.nodeId) # {}
  /\ reassignTargetId \in reassignOptions(St)
  /\ Cardinality(reassignOptions(St)) >= 2

\* b is one of the nodes of the list
IsOneOf(nodes, b) == \E i \in DOMAIN nodes : nodes[i] = b

(***************************************************************************)
(* C25.  In every state whose forest has distinct ids, for every id: if a  *)
(* node of the forest has the id, getPathToNode returns a chain of nodes   *)
(* whose first is a root, whose last is the node with the id, in which     *)
(* each node is followed by one of its children, and whose length is the   *)
(* level of the node plus one; if no node has the id it returns the empty  *)
(* chain.                                                                  *)
(***************************************************************************)
C25_PathToNode ==
  UniqueIds(forest) =>
    \A id \in Ids :
      LET path == getPathToNode(forest, id)
      IN  IF id \notin IdSet(forest) THEN path = <<>>
          ELSE /\ path # <<>>
               /\ IsOneOf(forest, path[1])
               /\ path[Len(path)].id = id
               /\ path[Len(path)] = findNodeAndParent(forest, id).node
               /\ \A k \in 1..(Len(path) - 1) :
                    IsOneOf(path[k].children, path[k + 1])
               /\ Len(path) = posFull(St)[id].level + 1

\* a child has been added two levels or more below a root and is selected:
\* its path in the side panel has three nodes or more
C25_Witness ==
  /\ lastOp.op = "addChildRight"
  /\ UniqueIds(forest)
  /\ selectedId = lastOp.b
  /\ Len(selectedPath(St)) >= 3
  /\ selectedPath(St)[Len(selectedPath(St))].id = selectedId
  /\ Len(forest) >= 2

(***************************************************************************)
(* C26.  In every state every id of the collapsed set is the id of a node  *)
(* of the forest.                                                          *)
(***************************************************************************)
C26_CollapsedPresent == collapsed \subseteq IdSet(forest)

(***************************************************************************)
(* C27.  In every state selectedId is null or the id of a node of the      *)
(* forest, and so is editingNodeId.                                        *)
(***************************************************************************)
C27_SelectedAndEditedPresent ==
  /\ selectedId \in IdSet(forest) \cup {NULL}
  /\ editingNodeId \in IdSet(forest) \cup {NULL}

(***************************************************************************)
(* C28.  A pointer-up that commits the move of n onto t (both present in a *)
(* forest of distinct ids, t not n and not below n) keeps the set of node  *)
(* ids and every name, keeps the subtree of n, takes n out of the list     *)
(* that held it with the order of the rest kept, appends n last to the     *)
(* children of t and changes no other children list; when t was already    *)
(* the parent of n, n becomes the last child of t and the ledger grows by  *)
(* exactly one entry.                                                      *)
(***************************************************************************)
C28_MoveFrame ==
  [][ ( /\ lastOp'.op = "pointerUp"
        /\ UniqueIds(forest)
        /\ lastOp'.a \in IdSet(forest)
        /\ lastOp'.b \in IdSet(forest) \ ({lastOp'.a} \cup Desc(forest, lastOp'.a)) )
        => LET n == lastOp'.a
               t == lastOp'.b
               V == Rel(forest)
               W == Rel(forest')
           IN  /\ IdSet(forest') = IdSet(forest)
               /\ UniqueIds(forest')
               /\ SameNodesExcept(V, W, {})
               /\ findNodeAndParent(forest', n).node = findNodeAndParent(forest, n).node
               /\ RootIds(forest') = Without(RootIds(forest), n)
               /\ W[t].kids = Without(V[t].kids, n) \o <<n>>
               /\ SameKidsExcept(V, W, {t}, n)
               /\ (\E i \in DOMAIN V[t].kids : V[t].kids[i] = n)
                    => /\ Len(W[t].kids) = Len(V[t].kids)
                       /\ W[t].kids[Len(W[t].kids)] = n
                       /\ Len(changeLog') = Len(changeLog) + 1 ]_vars

(***************************************************************************)
(* C29.  A drop target is set only during a drag session.  A pointer-down  *)
(* on a drag handle that startDrag accepts leaves the session of that node *)
(* and no drop target, whatever the target was.  A pointer-up of a drag,   *)
(* whatever the target (a node that takes the drop, one that refuses it,   *)
(* or none) and whether or not a render separates the listeners, leaves    *)
(* neither drag session nor drop target, in the cells and in the refs.     *)
(* The session of a node ends before the session of another node begins.   *)
(***************************************************************************)
C29_DropTargetOnlyWhileDragging ==
  /\ [](dropTargetId # NULL => drag # NoDrag)
  /\ [](\A n \in renderedIds(St) :
          (editingNodeId = NULL /\ ~deleteDialog.open) =>
            LET r == render(St, startDrag(St, n))
            IN  /\ r.drag # NoDrag /\ r.drag.draggingId = n
                /\ r.dropTargetId = NULL /\ r.dropTargetRef = NULL)
  /\ [](drag # NoDrag =>
          \A t \in Ids \cup {NULL} :
            \A flush \in BOOLEAN :
              LET s == [St EXCEPT !.dropTargetId = t, !.dropTargetRef = t]
                  r == render(s, pointerUp(s, flush))
              IN  /\ r.drag = NoDrag /\ r.dragRef = NoDrag
                  /\ r.dropTargetId = NULL /\ r.dropTargetRef = NULL)
  /\ [][ /\ lastOp'.op = "pointerUp" => (drag' = NoDrag /\ dropTargetId' = NULL)
         /\ (lastOp'.op = "startDrag" /\ drag' # NoDrag) => dropTargetId' = NULL
         /\ (drag # NoDrag /\ drag' # NoDrag)
              => drag'.draggingId = drag.draggingId ]_vars

\* a drag with a drop target has ended in a committed move
C29_Witness ==
  /\ lastOp.op = "pointerUp"
  /\ lastOp.b # NULL
  /\ forest # initialForest
  /\ drag = NoDrag
  /\ dropTargetId = NULL
  /\ dragRef = NoDrag
  /\ dropTargetRef = NULL

(***************************************************************************)
(* C30.  A click on the chevron of the level header at index i leaves the  *)
(* collapsed status of every node at a level below i as it was: a node     *)
(* that was collapsed is collapsed, a node that was expanded is expanded.  *)
(***************************************************************************)
C30_ToggleLevelKeepsLowerLevels ==
  [][ (lastOp'.op = "toggleLevel" /\ UniqueIds(forest))
        => \A id \in IdSet(forest) :
             levelOr0(posFull(St), id) < lastOp'.a
               => (id \in collapsed' <=> id \in collapsed) ]_vars

(***************************************************************************)
(* C31.  In every state, for the chevron of every level header drawn, at   *)
(* index i: when no node of the forest at level >= i is collapsed, a click *)
(* collapses every node of the forest at level >= i; when one is, a click  *)
(* expands them all; and of two clicks in a row the first or the second    *)
(* leaves every node of the forest at level >= i collapsed.                *)
(***************************************************************************)
C31_ToggleLevelCollapsesOrExpands ==
  UniqueIds(forest) =>
    \A i \in dimIndices(St) \ {editingDimIndex} :
      LET p  == posFull(St)
          at == { id \in IdSet(forest) : levelOr0(p, id) >= i }
          r  == toggleLevel(St, i)
          r2 == toggleLevel(r, i)
      IN  /\ at \cap collapsed = {} => at \subseteq r.collapsed
          /\ at \cap collapsed # {} => at \cap r.collapsed = {}
          /\ at \subseteq r.collapsed \/ at \subseteq r2.collapsed

(***************************************************************************)
(* C32.  In every state, the reset item of the group menu leaves: the      *)
(* initial forest (ids, names and order), the default level labels and     *)
(* group name, no collapsed node, no selected node, a ledger of exactly    *)
(* one entry, that of the reset, hence pending changes; the applied group  *)
(* name and the time of the last apply are the ones before.                *)
(***************************************************************************)
C32_ResetDraft ==
  LET r == render(St, resetDraft(St))
  IN  /\ r.forest = initialForest
      /\ r.dims = defaultDims
      /\ r.groupName = DefaultGroupName
      /\ r.collapsed = {}
      /\ r.selectedId = NULL
      /\ r.changeLog = <<[summary |-> "resetDraft"]>>
      /\ hasPendingChanges(r)
      /\ r.committedGroupName = committedGroupName
      /\ r.committedAt = committedAt

\* a reset after an apply: the forest, the labels and the ledger are those
\* of the reset, the time of the apply is kept
C32_Witness ==
  /\ lastOp.op = "resetDraft"
  /\ committedAt > 0
  /\ forest = initialForest
  /\ dims = defaultDims
  /\ groupName = DefaultGroupName
  /\ changeLog = <<[summary |-> "resetDraft"]>>

=============================================================================
